---- MODULE Spec2Model ----
(***************************************************************************)
(* Real-time audio analysis pipeline (Python-Listen-Frame).                *)
(*                                                                         *)
(* The repository holds several independent programs, each with its own    *)
(* capture callback (run by the audio thread) and its own render pass (run *)
(* by the GUI thread).  The variable prog says which program a behaviour   *)
(* is about:                                                               *)
(*   "engine"    AudioEngine + AudioAnalyzer.data_callback + AudioVisualizer*)
(*   "optimized" OptimizedAudioBrain                                       *)
(*   "ascii"     ASCIIMusicVisualizer                                      *)
(*   "combined"  CombinedMusicVisualizer                                   *)
(*   "fixed"     ElonMuskFixedVisual                                       *)
(*   "simple"    SimpleASCIIVisualizer                                     *)
(*   "brain"     ElonMuskAudioBrain                                        *)
(*                                                                         *)
(* Samples are integers in tenths of full scale (10 = amplitude 1.0).      *)
(* In the engine program the i-th sample of the stream has the value i, so *)
(* that order and eviction are visible; 0 is the padding value.            *)
(***************************************************************************)
EXTENDS Integers, Sequences, FiniteSets, TLC

(***************************************************************************)
(* Bounds of the model (scaled sizes and run lengths).                     *)
(***************************************************************************)
\* number of capture callbacks in a threaded behaviour of the engine
MaxFrames == 3
\* number of capture callbacks in a threaded behaviour of a visualizer class
MaxVisFrames == 2
\* largest number of samples per delivered frame (blocksize, scaled)
MaxFrameLen == 2
\* AudioEngine.window_samples = int(sample_rate * window_duration), scaled
window_samples == 3
\* AudioVisualizer.window_size, scaled
window_size == 2
\* blocksize of the 512-sample programs (optimized, ascii, fixed, simple), scaled
buffer_small == 15
\* blocksize of the 1024-sample programs (combined, brain), scaled
buffer_large == 16
\* the 1024-sample display width of audio_data, scaled
display_len == 16
\* ElonMuskFixedVisual: deque(maxlen=2048), scaled
fixed_maxlen == 20
\* ElonMuskFixedVisual: the transform is taken over mono[:256], scaled
fixed_fft_len == 14
\* frames fed in a feed-mode behaviour
MaxFeed == 13
\* non-silent frames among them
MaxLoud == 2
\* frames fed in a long behaviour (beyond the length of the energy history)
MaxLongFeed == 52
\* non-silent frames among them
MaxLongLoud == 1
\* calls of start_analysis in one behaviour
MaxAttempts == 2
\* capture callbacks in a behaviour of the analyzer
MaxLifeFrames == 2
\* frames fed in a behaviour with malformed frames
MaxMalformed == 3
\* key events, update_data calls and _animate calls of one AudioVisualizer,
\* and the longest array given to update_data
MaxKeys == 3
MaxUpdates == 2
MaxAnimate == 4
MaxInput == 3
\* calls of start_capture and stop_capture a client makes
MaxCalls == 3
\* callbacks of the capture path checked under fair scheduling
MaxCaptureFrames == 2
\* the length of a frame too short for eight bands
MaxShort == 2
\* the most channels and the most samples of a block given to the downmix
MaxChannels == 2
MaxBlock == 2
\* the largest number of bins of a magnitude spectrum given to the band
\* computation
MaxBins == 17

(***************************************************************************)
(* Program constants                                                       *)
(***************************************************************************)
\* np.zeros(8), range(8), len(magnitude) // 8
band_count == 8
\* len(self.energy_history) > 50; deque(maxlen=50)
history_maxlen == 50
\* list(self.energy_history)[-10:]
beat_window == 10
\* ElonMuskAudioBrain: deque(maxlen=self.sample_rate * 2)
brain_maxlen == 88200

VARIABLES
    prog,
    \* ---- AudioEngine / AudioAnalyzer / AudioVisualizer
    audio_buffer,      \* AudioEngine.audio_buffer (deque, maxlen window_samples)
    engine_lock,       \* owner of AudioEngine.lock: "free", "producer", "reader"
    data_lock,         \* owner of AudioVisualizer.data_lock: "free", "producer", "animator"
    data_callback,     \* AudioEngine.data_callback is set
    vis_audio_data,    \* AudioVisualizer.audio_data
    epc,               \* position of the audio thread in _audio_callback
    audio_chunk,       \* the mono frame of the callback in flight
    ext_i,             \* next sample of audio_chunk that deque.extend appends
    current_data,      \* data_callback's local current_data
    rpc,               \* position of a thread calling get_audio_data
    r_result,          \* << what that call returned last >>, << >> before the first
    r_from,            \* samples appended by completed extends when that call began
    apc,               \* position of the GUI thread in _animate
    a_data,            \* << _animate's local data >>, << >> before the first copy
    a_from,            \* stream position published when that _animate began
    nsamples,          \* samples delivered by the source so far
    ncallbacks,        \* callbacks that have returned
    totals,            \* stream positions after each completed extend
    appended,          \* stream position after the last completed extend
    published,         \* stream position after the last callback that returned
                       \* having called update_data
    \* ---- the visualizer classes (one object with one lock each)
    mode,              \* "capture": the capture path under fair scheduling;
                       \* "threads": callback and render pass interleave;
                       \* "feed": callbacks only, one whole callback per step
    lock,              \* owner of self.lock: "free", "producer", "consumer"
    pub,               \* the object's feature attributes: name -> [frame, val]
    energy_history,    \* self.energy_history (combined, brain)
    ppc,               \* position of the audio thread in audio_callback
    widx,              \* next attribute write of the callback
    cur,               \* locals of the callback in flight
    cpc,               \* position of the GUI thread in its render pass
    ridx,              \* next attribute read of the pass
    snap,              \* locals the pass copied under the lock
    seen,              \* attributes the pass read from the object directly
    pass_frames,       \* frames whose values the pass has used so far
    beat_seen,         \* the value of self.beat the pass read last
    frame_count,       \* OptimizedAudioBrain.frame_count
    frames,            \* callbacks started: the current frame's number
    done,              \* callbacks that have returned
    c_from,            \* callbacks that had returned when the pass began
    loud,              \* non-silent frames fed so far (feed mode)
    fed,               \* the energies of the frames fed so far (feed mode)
    prev_history       \* self.energy_history as the last callback found it (feed mode)

evars == << audio_buffer, engine_lock, data_lock, data_callback, vis_audio_data,
            epc, audio_chunk, ext_i, current_data, rpc, r_result, r_from,
            apc, a_data, a_from, nsamples, ncallbacks, totals, appended, published >>

vvars == << mode, lock, pub, energy_history, ppc, widx, cur, cpc, ridx, snap,
            seen, pass_frames, beat_seen, frame_count, frames, done, c_from, loud,
            fed, prev_history >>

\* AudioAnalyzer.start_analysis and cleanup around the engine's stream
VARIABLES
    mpc,            \* position of the main thread in start_analysis / cleanup
    attempts,       \* calls of start_analysis so far
    device_id,      \* argument of start_analysis: "none" or a device
    save_audio,     \* argument of start_analysis
    stream,         \* self.stream: "none", or the state of the stream it refers to
    is_running,     \* AudioEngine.is_running
    unclosed,       \* input streams created and not closed
    ret,            \* what the last start_capture returned
    call,           \* the last start_capture call: its device and what it met
    no_device,      \* some start_capture call found no device
    cb,             \* the capture callback: "idle" or "running"
    lframes,        \* capture callbacks begun
    registered,     \* set_data_callback has been called
    recording,      \* AudioAnalyzer.recording
    recorded,       \* chunks in AudioAnalyzer.recorded_data
    vis_stopped,    \* stop_visualization has returned
    cleanup_ran,    \* cleanup has been entered
    saving,         \* "no", "writing" or "done"
    late_update,    \* update_data was called after stop_visualization
    late_extend,    \* recorded_data.extend ran after stop_visualization or
                    \* while the recording was written
    exc             \* start_analysis ended with an exception

lvars == << mpc, attempts, device_id, save_audio, stream, is_running, unclosed,
            ret, call, no_device, cb, lframes, registered, recording, recorded,
            vis_stopped, cleanup_ran, saving, late_update, late_extend, exc >>

\* the random source of the visualizer classes, and the features a stream
\* yields when nothing runs beside its callbacks
VARIABLES
    rnd,            \* the value random drew last (particles, nodes, patterns)
    ref             \* features and energy history after the frames delivered
                    \* so far, one whole callback after the other

gvars == << rnd, ref >>

\* the band computation applied to a magnitude spectrum
VARIABLES
    spectrum,       \* np.abs(np.fft.rfft(...)) of a frame
    bands           \* the bands computed from it, << >> before

bvars == << spectrum, bands >>

\* the downmix of a block of the input stream
VARIABLES
    indata,         \* the block: its channels and its rows, one per sample
    mixed           \* what the callback made of it: the mono frame, its energy
                    \* and the samples it appended to the rolling buffer

dvars == << indata, mixed >>

\* a client that calls start_capture and stop_capture in any order
VARIABLES
    ops             \* the calls made so far, in order

cvars == << ops >>

\* AudioVisualizer with its key handler, update_data and _animate called in
\* any order (self.audio_data is vis_audio_data)
VARIABLES
    view_mode,        \* self.mode
    clears,           \* calls of self.ax.clear() so far
    line_wave,        \* 0 for None, else the number of clears when it was created
    line_fft,         \* likewise
    spectrogram_im,   \* likewise
    spectrogram_data, \* len(self.spectrogram_data)
    keys,             \* key events handled
    updates,          \* calls of update_data
    last_input,       \* the argument of the last update_data
    animations,       \* calls of _animate
    drawn             \* the last _animate: the artist it updated, when that was
                      \* created, the clears at the time, the length of its copy

kvars == << view_mode, clears, line_wave, line_fft, spectrogram_im,
            spectrogram_data, keys, updates, last_input, animations, drawn >>

\* the variables of the pure computations and of the free calls
ovars == << bvars, dvars, cvars, kvars >>

xvars == << gvars, ovars >>

vars == << prog, evars, vvars, lvars, xvars >>

(***************************************************************************)
(* Sequences                                                               *)
(***************************************************************************)
Zeros(n) == [i \in 1..n |-> 0]

\* s[-n:] for n >= 1
LastN(s, n) == IF Len(s) <= n THEN s ELSE SubSeq(s, Len(s) - n + 1, Len(s))

SeqMax(s) == IF Len(s) = 0 THEN 0
             ELSE CHOOSE m \in {s[i] : i \in 1..Len(s)} :
                      \A j \in 1..Len(s) : s[j] <= m

\* the samples lo+1 .. lo+n of the stream
Stream(lo, n) == [i \in 1..n |-> lo + i]

(***************************************************************************)
(* collections.deque(maxlen=...)                                           *)
(***************************************************************************)
\* a buffer without a capacity
DequeAppendUnbounded(buf, x, maxlen) == Append(buf, x)

\* a bounded buffer that drops the new sample when full
DequeAppendKeepOldest(buf, x, maxlen) ==
    IF Len(buf) < maxlen THEN Append(buf, x) ELSE buf

\* deque.append on a bounded deque: when full, the oldest item is discarded
DequeAppend(buf, x, maxlen) ==
    IF maxlen = 0 THEN << >>
    ELSE IF Len(buf) >= maxlen THEN Append(Tail(buf), x)
    ELSE Append(buf, x)

(***************************************************************************)
(* threading.Lock                                                          *)
(***************************************************************************)
\* a lock that lets everybody in
LockIgnored(l) == TRUE

\* "with lock:" enters only when nobody holds the lock
CanAcquire(l) == l = "free"

(***************************************************************************)
(* AudioEngine.get_audio_data and AudioVisualizer.update_data              *)
(***************************************************************************)
get_audio_data(buf) ==
    IF Len(buf) = 0 THEN Zeros(window_samples) ELSE buf

\* an update_data that stores a short input as it is
update_data_unpadded(audio) ==
    IF Len(audio) > window_size THEN LastN(audio, window_size) ELSE audio

update_data(audio) ==
    IF Len(audio) > window_size
    THEN LastN(audio, window_size)
    ELSE [i \in 1..window_size |-> IF i <= Len(audio) THEN audio[i] ELSE 0]

(***************************************************************************)
(* Initial state: the objects as their constructors leave them.            *)
(***************************************************************************)
EngineInit ==
    /\ audio_buffer = << >>
    /\ engine_lock = "free"
    /\ data_lock = "free"
    /\ data_callback = FALSE
    /\ vis_audio_data = Zeros(window_size)
    /\ epc = "idle"
    /\ audio_chunk = << >>
    /\ ext_i = 1
    /\ current_data = << >>
    /\ rpc = "idle"
    /\ r_result = << >>
    /\ r_from = 0
    /\ apc = "idle"
    /\ a_data = << >>
    /\ a_from = 0
    /\ nsamples = 0
    /\ ncallbacks = 0
    /\ totals = {}
    /\ appended = 0
    /\ published = 0

(***************************************************************************)
(* AudioEngine._audio_callback, run by the audio thread.                   *)
(***************************************************************************)
\* the source delivers a frame of n samples; the callback downmixes it
AudioCallback(n) ==
    /\ prog = "engine"
    /\ epc = "idle"
    /\ ncallbacks < (IF mode = "capture" THEN MaxCaptureFrames ELSE MaxFrames)
    /\ audio_chunk' = Stream(nsamples, n)
    /\ nsamples' = nsamples + n
    /\ epc' = "lock"
    /\ UNCHANGED << prog, xvars, lvars, vvars, audio_buffer, engine_lock, data_lock, data_callback,
                    vis_audio_data, ext_i, current_data, rpc, r_result, r_from,
                    apc, a_data, a_from, ncallbacks, totals, appended, published >>

\* with self.lock:
CallbackAcquire ==
    /\ prog = "engine"
    /\ epc = "lock"
    /\ CanAcquire(engine_lock)
    /\ engine_lock' = "producer"
    /\ ext_i' = 1
    /\ epc' = "extend"
    /\ UNCHANGED << prog, xvars, lvars, vvars, audio_buffer, data_lock, data_callback, vis_audio_data,
                    audio_chunk, current_data, rpc, r_result, r_from, apc, a_data,
                    a_from, nsamples, ncallbacks, totals, appended, published >>

\* self.audio_buffer.extend(audio_data), one sample
CallbackExtend ==
    /\ prog = "engine"
    /\ epc = "extend"
    /\ ext_i <= Len(audio_chunk)
    /\ audio_buffer' = DequeAppend(audio_buffer, audio_chunk[ext_i], window_samples)
    /\ ext_i' = ext_i + 1
    /\ UNCHANGED << prog, xvars, lvars, vvars, engine_lock, data_lock, data_callback, vis_audio_data,
                    epc, audio_chunk, current_data, rpc, r_result, r_from, apc,
                    a_data, a_from, nsamples, ncallbacks, totals, appended, published >>

\* a callback that calls data_callback inside its with-block
CallbackKeepsLock ==
    /\ prog = "engine"
    /\ epc = "extend"
    /\ ext_i > Len(audio_chunk)
    /\ totals' = totals \cup {nsamples}
    /\ appended' = nsamples
    /\ IF data_callback
       THEN /\ epc' = "get_lock"
            /\ UNCHANGED << ncallbacks, engine_lock >>
       ELSE /\ epc' = "idle"
            /\ ncallbacks' = ncallbacks + 1
            /\ engine_lock' = IF engine_lock = "producer" THEN "free" ELSE engine_lock
    /\ UNCHANGED << prog, xvars, lvars, vvars, audio_buffer, data_lock, data_callback, vis_audio_data,
                    audio_chunk, ext_i, current_data, rpc, r_result, r_from, apc,
                    a_data, a_from, nsamples, published >>

\* the extend is complete and the with-block is left;
\* "if self.data_callback:" decides whether the callback goes on
CallbackRelease ==
    /\ prog = "engine"
    /\ epc = "extend"
    /\ ext_i > Len(audio_chunk)
    /\ engine_lock' = IF engine_lock = "producer" THEN "free" ELSE engine_lock
    /\ totals' = totals \cup {nsamples}
    /\ appended' = nsamples
    /\ IF data_callback
       THEN /\ epc' = "get_lock"
            /\ UNCHANGED ncallbacks
       ELSE /\ epc' = "idle"
            /\ ncallbacks' = ncallbacks + 1
    /\ UNCHANGED << prog, xvars, lvars, vvars, audio_buffer, data_lock, data_callback, vis_audio_data,
                    audio_chunk, ext_i, current_data, rpc, r_result, r_from, apc,
                    a_data, a_from, nsamples, published >>

(***************************************************************************)
(* AudioAnalyzer.start_analysis.data_callback, called by _audio_callback   *)
(***************************************************************************)
\* current_data = self.audio_engine.get_audio_data(): with self.lock:
DataCallbackAcquire ==
    /\ prog = "engine"
    /\ epc = "get_lock"
    /\ CanAcquire(engine_lock)
    /\ engine_lock' = "producer"
    /\ epc' = "get_copy"
    /\ UNCHANGED << prog, xvars, lvars, vvars, audio_buffer, data_lock, data_callback, vis_audio_data,
                    audio_chunk, ext_i, current_data, rpc, r_result, r_from, apc,
                    a_data, a_from, nsamples, ncallbacks, totals, appended, published >>

DataCallbackCopy ==
    /\ prog = "engine"
    /\ epc = "get_copy"
    /\ current_data' = get_audio_data(audio_buffer)
    /\ engine_lock' = IF engine_lock = "producer" THEN "free" ELSE engine_lock
    /\ epc' = "update_lock"
    /\ UNCHANGED << prog, xvars, lvars, vvars, audio_buffer, data_lock, data_callback, vis_audio_data,
                    audio_chunk, ext_i, rpc, r_result, r_from, apc, a_data, a_from,
                    nsamples, ncallbacks, totals, appended, published >>

\* self.visualizer.update_data(current_data): with self.data_lock:
UpdateDataAcquire ==
    /\ prog = "engine"
    /\ epc = "update_lock"
    /\ CanAcquire(data_lock)
    /\ data_lock' = "producer"
    /\ epc' = "update_store"
    /\ UNCHANGED << prog, xvars, lvars, vvars, audio_buffer, engine_lock, data_callback, vis_audio_data,
                    audio_chunk, ext_i, current_data, rpc, r_result, r_from, apc,
                    a_data, a_from, nsamples, ncallbacks, totals, appended, published >>

\* self.audio_data = ...; the callback returns
UpdateDataStore ==
    /\ prog = "engine"
    /\ epc = "update_store"
    /\ vis_audio_data' = update_data(current_data)
    /\ data_lock' = IF data_lock = "producer" THEN "free" ELSE data_lock
    /\ epc' = "idle"
    /\ ncallbacks' = ncallbacks + 1
    /\ published' = nsamples
    /\ UNCHANGED << prog, xvars, lvars, vvars, audio_buffer, engine_lock, data_callback, audio_chunk,
                    ext_i, current_data, rpc, r_result, r_from, apc, a_data, a_from,
                    nsamples, totals, appended >>

\* AudioEngine.set_data_callback, called by start_analysis after start_capture
SetDataCallback ==
    /\ prog = "engine"
    /\ ~data_callback
    /\ data_callback' = TRUE
    /\ UNCHANGED << prog, xvars, lvars, vvars, audio_buffer, engine_lock, data_lock, vis_audio_data,
                    epc, audio_chunk, ext_i, current_data, rpc, r_result, r_from,
                    apc, a_data, a_from, nsamples, ncallbacks, totals, appended,
                    published >>

(***************************************************************************)
(* AudioEngine.get_audio_data called by another thread                     *)
(***************************************************************************)
ReaderAcquire ==
    /\ prog = "engine"
    /\ rpc = "idle"
    /\ CanAcquire(engine_lock)
    /\ engine_lock' = "reader"
    /\ rpc' = "copy"
    /\ r_from' = appended
    /\ UNCHANGED << prog, xvars, lvars, vvars, audio_buffer, data_lock, data_callback, vis_audio_data,
                    epc, audio_chunk, ext_i, current_data, r_result, apc, a_data,
                    a_from, nsamples, ncallbacks, totals, appended, published >>

ReaderCopy ==
    /\ prog = "engine"
    /\ rpc = "copy"
    /\ r_result' = << get_audio_data(audio_buffer) >>
    /\ engine_lock' = IF engine_lock = "reader" THEN "free" ELSE engine_lock
    /\ rpc' = "idle"
    /\ UNCHANGED << prog, xvars, lvars, vvars, audio_buffer, data_lock, data_callback, vis_audio_data,
                    epc, audio_chunk, ext_i, current_data, r_from, apc, a_data,
                    a_from, nsamples, ncallbacks, totals, appended, published >>

(***************************************************************************)
(* AudioVisualizer._animate, run by the GUI thread once start_visualization *)
(* has been called (after set_data_callback)                               *)
(***************************************************************************)
AnimateAcquire ==
    /\ prog = "engine"
    /\ data_callback
    /\ apc = "idle"
    /\ CanAcquire(data_lock)
    /\ data_lock' = "animator"
    /\ apc' = "copy"
    /\ a_from' = published
    /\ UNCHANGED << prog, xvars, lvars, vvars, audio_buffer, engine_lock, data_callback, vis_audio_data,
                    epc, audio_chunk, ext_i, current_data, rpc, r_result, r_from,
                    a_data, nsamples, ncallbacks, totals, appended, published >>

AnimateCopy ==
    /\ prog = "engine"
    /\ apc = "copy"
    /\ a_data' = << vis_audio_data >>
    /\ data_lock' = IF data_lock = "animator" THEN "free" ELSE data_lock
    /\ apc' = "idle"
    /\ UNCHANGED << prog, xvars, lvars, vvars, audio_buffer, engine_lock, data_callback, vis_audio_data,
                    epc, audio_chunk, ext_i, current_data, rpc, r_result, r_from,
                    a_from, nsamples, ncallbacks, totals, appended, published >>

EngineNext ==
    \/ \E n \in 1..MaxFrameLen : AudioCallback(n)
    \/ CallbackAcquire
    \/ CallbackExtend
    \/ CallbackRelease
    \/ DataCallbackAcquire
    \/ DataCallbackCopy
    \/ UpdateDataAcquire
    \/ UpdateDataStore
    \/ SetDataCallback
    \/ ReaderAcquire
    \/ ReaderCopy
    \/ AnimateAcquire
    \/ AnimateCopy


(***************************************************************************)
(* The visualizer classes.                                                 *)
(*                                                                         *)
(* A frame is a block of BufferSize(p) mono samples.  The frames of the    *)
(* model are constant blocks of amplitude a (in tenths of full scale).     *)
(* An energy is kept as the sum of the squared samples, that is in units   *)
(* of 1/(100 * BufferSize(p)): np.mean(mono ** 2) = SumSq / (100 * n).     *)
(***************************************************************************)
VisProgs == {"optimized", "ascii", "combined", "fixed", "simple", "brain"}

Fields == {"audio_data", "audio_buffer", "energy", "beat", "frequency_bands",
           "neural_activation", "last_energy", "beat_detected"}

Amplitudes == {0, 2, 10}

BufferSize(p) == IF p \in {"combined", "brain"} THEN buffer_large ELSE buffer_small

ConstFrame(a, n) == [i \in 1..n |-> a]

\* the value that stands for numpy's nan: no sample, energy or band of the
\* model is that small
NaN == -1000

IsNaN(x) == x = NaN

HasNaN(s) == \E i \in 1..Len(s) : IsNaN(s[i])

Abs(x) == IF x < 0 THEN -x ELSE x

Max0(x) == IF x > 0 THEN x ELSE 0

RECURSIVE SumSeq(_)
SumSeq(s) == IF Len(s) = 0 THEN 0 ELSE Head(s) + SumSeq(Tail(s))

RECURSIVE SumSq(_)
SumSq(s) == IF Len(s) = 0 THEN 0 ELSE Head(s) * Head(s) + SumSq(Tail(s))

\* a comparison with zero instead of the threshold
AboveZero(e, h, n) == e >= 0

\* energy > h / 100, for a frame of n samples
Above(e, h, n) == e > h * n

\* energy > np.mean(hist) * 2
ExceedsMeanTwice(e, hist) == e * Len(hist) > 2 * SumSeq(hist)

\* energy > np.mean(hist) * 1.5; a comparison with nan is false
ExceedsMean(e, hist) ==
    /\ ~IsNaN(e)
    /\ ~HasNaN(hist)
    /\ 2 * e * Len(hist) > 3 * SumSeq(hist)

\* np.mean(mono ** 2), times 100 * len(mono): nan for an empty frame (0 / 0)
\* and for a frame with a nan in it
Energy(mono) == IF Len(mono) = 0 \/ HasNaN(mono) THEN NaN ELSE SumSq(mono)

\* np.mean of a slice of bins, times its length
MeanOfBins(bins) == IF Len(bins) = 0 \/ HasNaN(bins) THEN NaN ELSE SumSeq(bins)

\* max(0, energy_delta * 1000): Python's max keeps the 0 when the comparison
\* with nan is false
NeuralActivation(e, last) ==
    IF IsNaN(e) \/ IsNaN(last) THEN 0 ELSE Max0((e - last) * 1000)

\* np.fft.rfft raises ValueError for an empty array
RfftRaises(mono) == Len(mono) = 0

\* np.abs(np.fft.rfft(mono)) of a constant block: len // 2 + 1 bins, the whole
\* block in bin 0
RfftMagnitude(mono) ==
    [k \in 1..((Len(mono) \div 2) + 1) |->
        IF HasNaN(mono) THEN NaN
        ELSE IF k = 1 THEN Abs(SumSeq(mono)) ELSE 0]

\* bands[i] = np.mean(magnitude[i * band_size : (i + 1) * band_size]); a band is
\* kept as the sum of its bins (units of 1 / band_size), nan for an empty slice
FrequencyBands(magnitude) ==
    LET band_size == Len(magnitude) \div band_count
    IN  [i \in 1..band_count |->
            MeanOfBins(SubSeq(magnitude, (i - 1) * band_size + 1, i * band_size))]

\* a history that is never trimmed
PushHistoryUnbounded(hist, e) == Append(hist, e)

\* self.energy_history.append(energy); pop(0) beyond 50 (combined);
\* deque(maxlen=50).append (brain)
PushHistory(hist, e) ==
    IF Len(hist) >= history_maxlen THEN Append(Tail(hist), e) ELSE Append(hist, e)

\* deque.extend(xs): every item appended in turn, the oldest items discarded
\* beyond maxlen
DequeExtend(buf, xs, maxlen) ==
    IF maxlen = 0 THEN << >> ELSE LastN(buf \o xs, maxlen)

\* the beat flag each callback computes; hist is the history after the push
BeatOf(p, e, n, hist) ==
    CASE p \in {"optimized", "simple"} -> Above(e, 1, n)
      [] p \in {"ascii", "fixed"}      -> Above(e, 2, n)
      [] p = "combined"                -> Above(e, 2, n) /\ ExceedsMean(e, hist)
      [] p = "brain"                   -> ExceedsMean(e, LastN(hist, beat_window))
                                          /\ Above(e, 1, n)

\* the locals of one callback: mono is the frame, hist and last are
\* self.energy_history and self.last_energy as the callback finds them
Computed(p, mono, hist, last) ==
    LET e  == Energy(mono)
        h2 == IF p \in {"combined", "brain"} THEN PushHistory(hist, e) ELSE hist
    IN  [ mono      |-> mono,
          energy    |-> e,
          history   |-> h2,
          \* brain: the first frame computes neither activation nor beat
          first     |-> p = "brain" /\ Len(h2) <= 1,
          beat      |-> BeatOf(p, e, Len(mono), h2),
          \* ascii, combined: the transform of the whole frame raises
          raises    |-> p \in {"ascii", "combined"} /\ RfftRaises(mono),
          frequency_bands |->
              IF p = "fixed"
              THEN IF Len(mono) >= fixed_fft_len
                   THEN FrequencyBands(RfftMagnitude(SubSeq(mono, 1, fixed_fft_len)))
                   ELSE Zeros(band_count)
              ELSE IF RfftRaises(mono) THEN Zeros(band_count)
              ELSE FrequencyBands(RfftMagnitude(mono)),
          neural_activation |-> NeuralActivation(e, last) ]

\* a callback that never stores energy and bands
WriteOrderNoEnergy(p) == << "audio_data", "beat" >>

\* attribute writes of the callback inside "with self.lock:", in program order
WriteOrder(p) ==
    CASE p = "optimized" -> << "audio_data", "energy", "beat" >>
      [] p = "ascii"     -> << "audio_data", "energy", "beat", "frequency_bands" >>
      [] p = "combined"  -> << "audio_data", "energy", "beat", "frequency_bands",
                               "neural_activation", "last_energy" >>
      [] p = "fixed"     -> << "audio_buffer", "energy", "beat", "frequency_bands" >>
      [] p = "simple"    -> << "energy", "beat" >>
      [] p = "brain"     -> << "audio_buffer" >>

\* attribute writes of the callback after the lock is released
\* (ElonMuskAudioBrain.process_neural_audio)
UnlockedWrites(p) ==
    IF p = "brain" THEN << "neural_activation", "beat_detected", "last_energy" >>
    ELSE << >>

\* a callback whose stored energy takes in the last random draw
WriteValJittered(p, f, c, old) ==
    CASE f = "audio_data" ->
             IF p = "combined" THEN LastN(c.mono, display_len)
             ELSE IF Len(c.mono) >= display_len THEN LastN(c.mono, display_len)
             ELSE c.mono \o Zeros(display_len - Len(c.mono))
      [] f = "audio_buffer" ->
             DequeExtend(old, c.mono, IF p = "fixed" THEN fixed_maxlen ELSE brain_maxlen)
      [] f = "energy" -> c.energy + rnd
      [] f = "beat" -> c.beat
      [] f = "frequency_bands" -> c.frequency_bands
      [] f = "neural_activation" -> IF c.first THEN old ELSE c.neural_activation
      [] f = "beat_detected" -> IF c.first THEN old ELSE c.beat
      [] f = "last_energy" -> c.energy + rnd

\* the value a write stores; old is the attribute's value before it
WriteVal(p, f, c, old) ==
    CASE f = "audio_data" ->
             IF p = "combined" THEN LastN(c.mono, display_len)
             ELSE IF Len(c.mono) >= display_len THEN LastN(c.mono, display_len)
             ELSE c.mono \o Zeros(display_len - Len(c.mono))
      [] f = "audio_buffer" ->
             DequeExtend(old, c.mono, IF p = "fixed" THEN fixed_maxlen ELSE brain_maxlen)
      [] f = "energy" -> c.energy
      [] f = "beat" -> c.beat
      [] f = "frequency_bands" -> c.frequency_bands
      [] f = "neural_activation" -> IF c.first THEN old ELSE c.neural_activation
      [] f = "beat_detected" -> IF c.first THEN old ELSE c.beat
      [] f = "last_energy" -> c.energy

\* the attributes the render pass copies inside "with self.lock:"
LockedReads(p) ==
    CASE p = "optimized" -> << "audio_data", "energy", "beat" >>
      [] p = "ascii"     -> << "audio_data", "energy", "beat", "frequency_bands" >>
      [] p = "combined"  -> << "audio_data", "energy", "beat", "frequency_bands" >>
      [] p = "fixed"     -> << "audio_buffer", "energy", "beat", "frequency_bands" >>
      [] p = "simple"    -> << "energy", "beat" >>
      [] p = "brain"     -> << "audio_buffer" >>

\* what a locked copy yields
CopyVal(p, f, v) ==
    IF f = "audio_buffer"
    THEN IF Len(v) > 0 THEN LastN(v, display_len) ELSE Zeros(display_len)
    ELSE v

\* the attributes the pass reads from the object after the lock is released,
\* in program order; "?energy" is the read of self.energy that
\* "self.beat and self.energy > 0.05" makes only when self.beat was true
SelectAsciiPattern == << "frequency_bands", "frequency_bands", "frequency_bands",
                         "beat", "?energy" >>

SelectAiImage == << "frequency_bands", "frequency_bands", "energy" >>

DirectReads(p) ==
    CASE p = "optimized" -> << >>
      [] p = "ascii"     -> SelectAsciiPattern \o SelectAiImage
      [] p = "combined"  -> << "energy" >> \o SelectAsciiPattern
                            \o << "neural_activation" >> \o SelectAiImage
      [] p = "fixed"     -> << "frequency_bands", "frequency_bands",
                               "frequency_bands", "frequency_bands" >>
      [] p = "simple"    -> << >>
      [] p = "brain"     -> << "last_energy", "neural_activation", "beat_detected",
                               "beat_detected" >>

\* a constructor that leaves energy at one
InitialFeaturesEnergyOne ==
    [f \in Fields |->
        [frame |-> 0,
         val |-> CASE f = "audio_data" -> Zeros(display_len)
                   [] f = "audio_buffer" -> << >>
                   [] f \in {"beat", "beat_detected"} -> FALSE
                   [] f = "frequency_bands" -> Zeros(band_count)
                   [] f = "energy" -> 1
                   [] OTHER -> 0]]

\* the attributes as __init__ leaves them
InitialFeatures ==
    [f \in Fields |->
        [frame |-> 0,
         val |-> CASE f = "audio_data" -> Zeros(display_len)
                   [] f = "audio_buffer" -> << >>
                   [] f \in {"beat", "beat_detected"} -> FALSE
                   [] f = "frequency_bands" -> Zeros(band_count)
                   [] OTHER -> 0]]

NoCopies == [f \in Fields |-> [set |-> FALSE, frame |-> 0, val |-> 0]]

NoLocals == [mono |-> << >>, energy |-> 0, history |-> << >>, first |-> FALSE,
             beat |-> FALSE, raises |-> FALSE, frequency_bands |-> Zeros(band_count),
             neural_activation |-> 0]

VisInit ==
    /\ mode \in {"threads", "feed", "long", "malformed", "capture"}
    /\ lock = "free"
    /\ pub = InitialFeatures
    /\ energy_history = << >>
    /\ ppc = "idle"
    /\ widx = 1
    /\ cur = NoLocals
    /\ cpc = "idle"
    /\ ridx = 1
    /\ snap = NoCopies
    /\ seen = NoCopies
    /\ pass_frames = {}
    /\ beat_seen = FALSE
    /\ frame_count = 0
    /\ frames = 0
    /\ done = 0
    /\ c_from = 0
    /\ loud = 0
    /\ fed = << >>
    /\ prev_history = << >>

\* the attributes a callback writes
Written(p) ==
    {WriteOrder(p)[i] : i \in 1..Len(WriteOrder(p))}
        \cup {UnlockedWrites(p)[i] : i \in 1..Len(UnlockedWrites(p))}

\* what random.uniform / random.choice may yield
Draws == {0, 1}

\* the attributes and the energy history one whole audio_callback leaves,
\* given those it found and the frame
AfterCallback(p, feat, mono) ==
    LET c == Computed(p, mono, feat.history, feat.vals["last_energy"])
    IN  [vals    |-> [f \in Fields |->
                         IF f \in Written(p) /\ ~c.raises
                         THEN WriteVal(p, f, c, feat.vals[f])
                         ELSE feat.vals[f]],
         history |-> c.history]

RandomInit ==
    /\ rnd = 0
    /\ ref = [vals |-> [f \in Fields |-> InitialFeatures[f].val], history |-> << >>]

Stamp(f, v) == [frame |-> frames, val |-> v]

(***************************************************************************)
(* audio_callback, run by the audio thread                                 *)
(***************************************************************************)
\* the source delivers a frame; the callback computes its locals
VisCallback(a) ==
    /\ prog \in VisProgs
    /\ mode = "threads"
    /\ ppc = "idle"
    /\ frames < MaxVisFrames
    /\ frames' = frames + 1
    /\ cur' = Computed(prog, ConstFrame(a, BufferSize(prog)), energy_history,
                       pub["last_energy"].val)
    \* combined pushes the energy before it takes the lock; brain pushes it in
    \* process_neural_audio
    /\ energy_history' = IF prog = "combined" THEN cur'.history ELSE energy_history
    /\ ppc' = "lock"
    /\ ref' = AfterCallback(prog, ref, ConstFrame(a, BufferSize(prog)))
    /\ UNCHANGED << prog, rnd, ovars, lvars, evars, mode, lock, pub, widx, cpc, ridx, snap, seen,
                    pass_frames, beat_seen, frame_count, done, c_from, loud, fed, prev_history >>

\* with self.lock:
VisAcquire ==
    /\ prog \in VisProgs
    /\ ppc = "lock"
    /\ CanAcquire(lock)
    /\ lock' = "producer"
    /\ widx' = 1
    /\ ppc' = "write"
    /\ UNCHANGED << prog, xvars, lvars, evars, mode, pub, energy_history, cur, cpc, ridx, snap, seen,
                    pass_frames, beat_seen, frame_count, frames, done, c_from, loud, fed, prev_history >>

\* one attribute write inside the with-block
VisWrite ==
    /\ prog \in VisProgs
    /\ ppc = "write"
    /\ widx <= Len(WriteOrder(prog))
    /\ LET f == WriteOrder(prog)[widx]
       IN  pub' = [pub EXCEPT ![f] = Stamp(f, WriteVal(prog, f, cur, pub[f].val))]
    /\ widx' = widx + 1
    /\ UNCHANGED << prog, xvars, lvars, evars, mode, lock, energy_history, ppc, cur, cpc, ridx, snap,
                    seen, pass_frames, beat_seen, frame_count, frames, done, c_from,
                    loud, fed, prev_history >>

\* the callback draws from random inside or right after its with-block:
\* a particle on a strong beat (optimized, fixed), an explosion on a beat
\* (combined)
SpawnsParticle(p, c) ==
    CASE p \in {"optimized", "fixed"} -> c.beat /\ Above(c.energy, 5, Len(c.mono))
      [] p = "combined" -> c.beat /\ Above(c.energy, 2, Len(c.mono))
      [] OTHER -> FALSE

\* the with-block is left; every class but brain returns here
VisRelease(r) ==
    /\ prog \in VisProgs
    /\ ppc = "write"
    /\ widx > Len(WriteOrder(prog))
    /\ rnd' = IF SpawnsParticle(prog, cur) THEN r ELSE rnd
    /\ lock' = IF lock = "producer" THEN "free" ELSE lock
    /\ widx' = 1
    /\ IF Len(UnlockedWrites(prog)) > 0
       THEN /\ ppc' = "process"
            /\ energy_history' = cur.history
            /\ UNCHANGED done
       ELSE /\ ppc' = "idle"
            /\ done' = done + 1
            /\ UNCHANGED energy_history
    /\ UNCHANGED << prog, ref, ovars, lvars, evars, mode, pub, cur, cpc, ridx, snap, seen, pass_frames,
                    beat_seen, frame_count, frames, c_from, loud, fed, prev_history >>

\* ElonMuskAudioBrain.process_neural_audio: one attribute write, no lock held
VisProcess ==
    /\ prog \in VisProgs
    /\ ppc = "process"
    /\ widx <= Len(UnlockedWrites(prog))
    /\ LET f == UnlockedWrites(prog)[widx]
       IN  pub' = [pub EXCEPT ![f] = Stamp(f, WriteVal(prog, f, cur, pub[f].val))]
    /\ widx' = widx + 1
    /\ UNCHANGED << prog, xvars, lvars, evars, mode, lock, energy_history, ppc, cur, cpc, ridx, snap,
                    seen, pass_frames, beat_seen, frame_count, frames, done, c_from,
                    loud, fed, prev_history >>

\* process_neural_audio and with it the callback return
VisReturn(r) ==
    /\ prog \in VisProgs
    /\ ppc = "process"
    /\ widx > Len(UnlockedWrites(prog))
    /\ ppc' = "idle"
    /\ widx' = 1
    /\ done' = done + 1
    \* update_neural_network draws for every node
    /\ rnd' = r
    /\ UNCHANGED << prog, ref, ovars, lvars, evars, mode, lock, pub, energy_history, cur, cpc, ridx, snap,
                    seen, pass_frames, beat_seen, frame_count, frames, c_from, loud, fed, prev_history >>

(***************************************************************************)
(* update_frame / render_frame / draw_ascii_art, run by the GUI thread     *)
(***************************************************************************)
\* the pass begins; OptimizedAudioBrain.update_frame returns at once on every
\* other call
PassStart ==
    /\ prog \in VisProgs
    /\ mode = "threads"
    /\ cpc = "idle"
    /\ snap' = NoCopies
    /\ seen' = NoCopies
    /\ pass_frames' = {}
    /\ c_from' = done
    /\ IF prog = "optimized"
       THEN /\ frame_count' = (frame_count + 1) % 2
            /\ cpc' = IF frame_count' # 0 THEN "idle" ELSE "lock"
       ELSE /\ cpc' = "lock"
            /\ UNCHANGED frame_count
    /\ UNCHANGED << prog, xvars, lvars, evars, mode, lock, pub, energy_history, ppc, widx, cur, ridx,
                    beat_seen, frames, done, loud, fed, prev_history >>

\* with self.lock:
PassAcquire ==
    /\ prog \in VisProgs
    /\ cpc = "lock"
    /\ CanAcquire(lock)
    /\ lock' = "consumer"
    /\ ridx' = 1
    /\ cpc' = "copy"
    /\ UNCHANGED << prog, xvars, lvars, evars, mode, pub, energy_history, ppc, widx, cur, snap, seen,
                    pass_frames, beat_seen, frame_count, frames, done, c_from, loud, fed, prev_history >>

\* one copy inside the with-block
PassCopy ==
    /\ prog \in VisProgs
    /\ cpc = "copy"
    /\ ridx <= Len(LockedReads(prog))
    /\ LET f == LockedReads(prog)[ridx]
       IN  /\ snap' = [snap EXCEPT ![f] = [set |-> TRUE, frame |-> pub[f].frame,
                                           val |-> CopyVal(prog, f, pub[f].val)]]
           /\ pass_frames' = pass_frames \cup {pub[f].frame}
    /\ ridx' = ridx + 1
    /\ UNCHANGED << prog, xvars, lvars, evars, mode, lock, pub, energy_history, ppc, widx, cur, cpc,
                    seen, beat_seen, frame_count, frames, done, c_from, loud, fed, prev_history >>

\* a render pass that resets the energy it has just copied
PassReleaseResetsEnergy ==
    /\ prog \in VisProgs
    /\ cpc = "copy"
    /\ ridx > Len(LockedReads(prog))
    /\ lock' = IF lock = "consumer" THEN "free" ELSE lock
    /\ ridx' = 1
    /\ cpc' = "direct"
    /\ pub' = [f \in Fields |-> IF f \in {"energy", "last_energy"}
                                THEN [pub[f] EXCEPT !.val = 0] ELSE pub[f]]
    /\ UNCHANGED << prog, xvars, lvars, evars, mode, energy_history, ppc, widx, cur, snap, seen,
                    pass_frames, beat_seen, frame_count, frames, done, c_from, loud, fed, prev_history >>

\* the with-block of the pass is left
PassRelease ==
    /\ prog \in VisProgs
    /\ cpc = "copy"
    /\ ridx > Len(LockedReads(prog))
    /\ lock' = IF lock = "consumer" THEN "free" ELSE lock
    /\ ridx' = 1
    /\ cpc' = "direct"
    /\ UNCHANGED << prog, xvars, lvars, evars, mode, pub, energy_history, ppc, widx, cur, snap, seen,
                    pass_frames, beat_seen, frame_count, frames, done, c_from, loud, fed, prev_history >>

\* one read of an attribute of self, no lock held
PassDirect ==
    /\ prog \in VisProgs
    /\ cpc = "direct"
    /\ ridx <= Len(DirectReads(prog))
    /\ LET r == DirectReads(prog)[ridx]
           f == IF r = "?energy" THEN "energy" ELSE r
       IN  IF r = "?energy" /\ ~beat_seen
           THEN UNCHANGED << seen, pass_frames, beat_seen >>
           ELSE /\ seen' = [seen EXCEPT ![f] = [set |-> TRUE, frame |-> pub[f].frame,
                                                val |-> pub[f].val]]
                /\ pass_frames' = pass_frames \cup {pub[f].frame}
                /\ beat_seen' = IF f = "beat" THEN pub[f].val ELSE beat_seen
    /\ ridx' = ridx + 1
    /\ UNCHANGED << prog, xvars, lvars, evars, mode, lock, pub, energy_history, ppc, widx, cur, cpc,
                    snap, frame_count, frames, done, c_from, loud, fed, prev_history >>

\* the classes whose pass draws from random: the pattern choice (simple,
\* ascii, combined), the node activations (fixed, combined)
RandomPasses == {"simple", "ascii", "combined", "fixed"}

\* the pass is over
PassEnd(r) ==
    /\ prog \in VisProgs
    /\ cpc = "direct"
    /\ ridx > Len(DirectReads(prog))
    /\ cpc' = "idle"
    /\ ridx' = 1
    /\ rnd' = IF prog \in RandomPasses THEN r ELSE rnd
    /\ UNCHANGED << prog, ref, ovars, lvars, evars, mode, lock, pub, energy_history, ppc, widx, cur, snap,
                    seen, pass_frames, beat_seen, frame_count, frames, done, c_from,
                    loud, fed, prev_history >>

(***************************************************************************)
(* Feed mode: the callbacks of a stream one after the other, no render     *)
(* pass.  One step is one whole callback.                                  *)
(***************************************************************************)
\* a full frame of zeros
IsSilent(mono) == Len(mono) > 0 /\ \A i \in 1..Len(mono) : mono[i] = 0

\* the length of a fed behaviour and the number of its frames that are not
\* silent
FeedLimit ==
    CASE mode = "long" -> MaxLongFeed
      [] mode = "malformed" -> MaxMalformed
      [] OTHER -> MaxFeed

LoudLimit ==
    CASE mode = "long" -> MaxLongLoud
      [] mode = "malformed" -> MaxMalformed
      [] OTHER -> MaxLoud

\* one whole audio_callback for the frame mono, with no render pass in between
Feed(mono) ==
    /\ prog \in VisProgs
    /\ mode \in {"feed", "long", "malformed"}
    /\ frames < FeedLimit
    /\ ~IsSilent(mono) => loud < LoudLimit
    /\ loud' = IF ~IsSilent(mono) THEN loud + 1 ELSE loud
    /\ frames' = frames + 1
    /\ done' = done + 1
    /\ cur' = Computed(prog, mono, energy_history, pub["last_energy"].val)
    /\ prev_history' = energy_history
    /\ energy_history' = cur'.history
    /\ fed' = Append(fed, cur'.energy)
    \* an exception ends the callback before anything is stored
    /\ pub' = [f \in Fields |->
                 IF f \in Written(prog) /\ ~cur'.raises
                 THEN [frame |-> frames + 1,
                       val |-> WriteVal(prog, f, cur', pub[f].val)]
                 ELSE pub[f]]
    /\ UNCHANGED << prog, xvars, lvars, evars, mode, lock, ppc, widx, cpc, ridx, snap, seen,
                    pass_frames, beat_seen, frame_count, c_from >>

FeedAmplitudes == {0, 2, 3, 10}

FeedNext == \E a \in FeedAmplitudes : Feed(ConstFrame(a, BufferSize(prog)))

LongAmplitudes == {0, 2, 10}

LongNext == \E a \in LongAmplitudes : Feed(ConstFrame(a, BufferSize(prog)))

\* an empty frame, a frame of nan, a silent frame, a full-scale frame and a
\* full-scale frame of a few samples
MalformedFrames(p) ==
    {<< >>} \cup {ConstFrame(a, BufferSize(p)) : a \in {NaN, 0, 10}}
            \cup {ConstFrame(10, MaxShort)}

MalformedNext == \E mono \in MalformedFrames(prog) : Feed(mono)

VisNext ==
    \/ \E a \in Amplitudes : VisCallback(a)
    \/ VisAcquire
    \/ VisWrite
    \/ \E r \in Draws : VisRelease(r)
    \/ VisProcess
    \/ \E r \in Draws : VisReturn(r)
    \/ PassStart
    \/ PassAcquire
    \/ PassCopy
    \/ PassRelease
    \/ PassDirect
    \/ \E r \in Draws : PassEnd(r)

(***************************************************************************)
(* AudioAnalyzer (main.py): start_analysis, the capture stream of          *)
(* AudioEngine.start_capture / stop_capture, and cleanup.                  *)
(***************************************************************************)
LifeInit ==
    /\ mpc = "idle"
    /\ attempts = 0
    /\ device_id = "none"
    /\ save_audio = FALSE
    /\ stream = "none"
    /\ is_running = FALSE
    /\ unclosed = 0
    /\ ret = "none"
    /\ call = [device_id |-> "none", found |-> "none", outcome |-> "none"]
    /\ no_device = FALSE
    /\ cb = "idle"
    /\ lframes = 0
    /\ registered = FALSE
    /\ recording = FALSE
    /\ recorded = 0
    /\ vis_stopped = FALSE
    /\ cleanup_ran = FALSE
    /\ saving = "no"
    /\ late_update = FALSE
    /\ late_extend = FALSE
    /\ exc = FALSE

Devices == {"none", "dev"}

\* what may happen inside the try block of start_capture
StartOutcomes == {"ok", "query_raises", "open_raises", "start_raises"}

\* start_analysis up to the call of start_capture
StartAnalysis(d, sa) ==
    /\ prog = "analyzer"
    /\ mpc = "idle"
    /\ attempts < MaxAttempts
    /\ attempts' = attempts + 1
    /\ device_id' = d
    /\ save_audio' = sa
    /\ recording' = IF sa THEN TRUE ELSE recording
    /\ recorded' = IF sa THEN 0 ELSE recorded
    /\ mpc' = "start_capture"
    /\ UNCHANGED << prog, xvars, evars, vvars, stream, is_running, unclosed, ret, call,
                    no_device, cb, lframes, registered, vis_stopped, cleanup_ran,
                    saving, late_update, late_extend, exc >>

\* a lookup that always yields a device
NoDeviceIgnored(d) == FALSE

\* "if device_id is None" after the lookup
NoDevice(d) == d = "none"

\* a start_capture without its first test
NeverAlreadyRunning == FALSE

\* "if self.is_running: return True"
AlreadyRunning == is_running

\* AudioEngine.start_capture; found is what find_loopback_device returns and
\* outcome what happens inside the try block
StartCapture(found, outcome) ==
    /\ prog \in {"analyzer", "caller"}
    /\ mpc = "start_capture"
    /\ call' = [device_id |-> device_id, found |-> found, outcome |-> outcome]
    /\ IF AlreadyRunning
       THEN /\ ret' = "true"
            /\ mpc' = "set_callback"
            /\ UNCHANGED << stream, is_running, unclosed, no_device >>
       ELSE LET dev == IF device_id = "none" THEN found ELSE device_id
            IN  IF NoDevice(dev)
                THEN /\ ret' = "false"
                     /\ mpc' = "failed"
                     /\ no_device' = TRUE
                     /\ UNCHANGED << stream, is_running, unclosed >>
                ELSE /\ UNCHANGED no_device
                     /\ CASE outcome \in {"query_raises", "open_raises"} ->
                                 /\ ret' = "false"
                                 /\ mpc' = "failed"
                                 /\ UNCHANGED << stream, is_running, unclosed >>
                          [] outcome = "start_raises" ->
                                 \* self.stream is bound before stream.start()
                                 /\ stream' = "open"
                                 /\ unclosed' = unclosed + 1
                                 /\ ret' = "false"
                                 /\ mpc' = "failed"
                                 /\ UNCHANGED is_running
                          [] outcome = "ok" ->
                                 /\ stream' = "active"
                                 /\ unclosed' = unclosed + 1
                                 /\ is_running' = TRUE
                                 /\ ret' = "true"
                                 /\ mpc' = "set_callback"
    /\ UNCHANGED << prog, xvars, evars, vvars, attempts, device_id, save_audio, cb, lframes,
                    registered, recording, recorded, vis_stopped, cleanup_ran,
                    saving, late_update, late_extend, exc >>

\* "Failed to start audio capture": start_analysis returns False
ReturnFailed ==
    /\ prog = "analyzer"
    /\ mpc = "failed"
    /\ mpc' = "idle"
    /\ UNCHANGED << prog, xvars, evars, vvars, attempts, device_id, save_audio, stream,
                    is_running, unclosed, ret, call, no_device, cb, lframes,
                    registered, recording, recorded, vis_stopped, cleanup_ran,
                    saving, late_update, late_extend, exc >>

\* self.audio_engine.set_data_callback(data_callback), then start_visualization
RegisterCallback ==
    /\ prog = "analyzer"
    /\ mpc = "set_callback"
    /\ registered' = TRUE
    /\ mpc' = "visualizing"
    /\ UNCHANGED << prog, xvars, evars, vvars, attempts, device_id, save_audio, stream,
                    is_running, unclosed, ret, call, no_device, cb, lframes,
                    recording, recorded, vis_stopped, cleanup_ran, saving,
                    late_update, late_extend, exc >>

\* start_visualization returns (window closed), is interrupted or raises: the
\* finally clause enters cleanup
EndVisualization(how) ==
    /\ prog = "analyzer"
    /\ mpc = "visualizing"
    /\ exc' = (how = "error")
    /\ cleanup_ran' = TRUE
    /\ mpc' = "stop_capture"
    /\ UNCHANGED << prog, xvars, evars, vvars, attempts, device_id, save_audio, stream,
                    is_running, unclosed, ret, call, no_device, cb, lframes,
                    registered, recording, recorded, vis_stopped, saving,
                    late_update, late_extend >>

\* a stop that does not wait for the callback
StreamStopImmediate == TRUE

\* stream.stop() returns once no callback is running
StreamStopWaits == cb = "idle"

\* AudioEngine.stop_capture, called by cleanup
StopCapture(outcome) ==
    /\ prog \in {"analyzer", "caller"}
    /\ mpc = "stop_capture"
    /\ IF stream = "none"
       THEN /\ is_running' = FALSE
            /\ mpc' = "stop_vis"
            /\ UNCHANGED << stream, unclosed, exc >>
       ELSE /\ StreamStopWaits
            /\ CASE outcome = "ok" ->
                        /\ stream' = "none"
                        /\ unclosed' = unclosed - 1
                        /\ is_running' = FALSE
                        /\ mpc' = "stop_vis"
                        /\ UNCHANGED exc
                 [] outcome = "stop_raises" ->
                        \* the exception leaves cleanup and start_analysis
                        /\ exc' = TRUE
                        /\ mpc' = "done"
                        /\ UNCHANGED << stream, unclosed, is_running >>
                 [] outcome = "close_raises" ->
                        /\ stream' = "stopped"
                        /\ exc' = TRUE
                        /\ mpc' = "done"
                        /\ UNCHANGED << unclosed, is_running >>
    /\ UNCHANGED << prog, xvars, evars, vvars, attempts, device_id, save_audio, ret, call,
                    no_device, cb, lframes, registered, recording, recorded,
                    vis_stopped, cleanup_ran, saving, late_update, late_extend >>

\* self.visualizer.stop_visualization()
StopVisualization ==
    /\ prog = "analyzer"
    /\ mpc = "stop_vis"
    /\ vis_stopped' = TRUE
    /\ mpc' = "save"
    /\ UNCHANGED << prog, xvars, evars, vvars, attempts, device_id, save_audio, stream,
                    is_running, unclosed, ret, call, no_device, cb, lframes,
                    registered, recording, recorded, cleanup_ran, saving,
                    late_update, late_extend, exc >>

\* cleanup: np.array(self.recorded_data) and sf.write, when there is something
\* to save
SaveBegin ==
    /\ prog = "analyzer"
    /\ mpc = "save"
    /\ IF save_audio /\ recorded > 0
       THEN saving' = "writing" /\ mpc' = "saving"
       ELSE saving' = saving /\ mpc' = "done"
    /\ UNCHANGED << prog, xvars, evars, vvars, attempts, device_id, save_audio, stream,
                    is_running, unclosed, ret, call, no_device, cb, lframes,
                    registered, recording, recorded, vis_stopped, cleanup_ran,
                    late_update, late_extend, exc >>

\* the write ends, with or without an exception (which cleanup catches)
SaveEnd(ok) ==
    /\ prog = "analyzer"
    /\ mpc = "saving"
    /\ saving' = IF ok THEN "done" ELSE "no"
    /\ mpc' = "done"
    /\ UNCHANGED << prog, xvars, evars, vvars, attempts, device_id, save_audio, stream,
                    is_running, unclosed, ret, call, no_device, cb, lframes,
                    registered, recording, recorded, vis_stopped, cleanup_ran,
                    late_update, late_extend, exc >>

\* the stream invokes _audio_callback while it is active
CaptureCallbackBegin ==
    /\ prog \in {"analyzer", "caller"}
    /\ stream = "active"
    /\ cb = "idle"
    /\ lframes < MaxLifeFrames
    /\ lframes' = lframes + 1
    /\ cb' = "running"
    /\ UNCHANGED << prog, xvars, evars, vvars, mpc, attempts, device_id, save_audio, stream,
                    is_running, unclosed, ret, call, no_device, registered,
                    recording, recorded, vis_stopped, cleanup_ran, saving,
                    late_update, late_extend, exc >>

\* _audio_callback calls data_callback if one is set (update_data, then
\* recorded_data.extend when recording) and returns
CaptureCallbackEnd ==
    /\ prog \in {"analyzer", "caller"}
    /\ cb = "running"
    /\ cb' = "idle"
    /\ late_update' = (late_update \/ (registered /\ vis_stopped))
    /\ recorded' = IF registered /\ recording THEN recorded + 1 ELSE recorded
    /\ late_extend' = (late_extend \/ (registered /\ recording
                                        /\ (vis_stopped \/ mpc \in {"save", "saving"})))
    /\ UNCHANGED << prog, xvars, evars, vvars, mpc, attempts, device_id, save_audio, stream,
                    is_running, unclosed, ret, call, no_device, lframes, registered,
                    recording, vis_stopped, cleanup_ran, saving, exc >>

\* a client calls start_capture(device_id)
CallStartCapture(d) ==
    /\ prog = "caller"
    /\ mpc = "idle"
    /\ attempts < MaxCalls
    /\ attempts' = attempts + 1
    /\ ops' = Append(ops, "start")
    /\ device_id' = d
    /\ mpc' = "start_capture"
    /\ UNCHANGED << prog, gvars, bvars, dvars, kvars, evars, vvars, save_audio, stream, is_running,
                    unclosed, ret, call, no_device, cb, lframes, registered, recording,
                    recorded, vis_stopped, cleanup_ran, saving, late_update,
                    late_extend, exc >>

\* a client calls stop_capture()
CallStopCapture ==
    /\ prog = "caller"
    /\ mpc = "idle"
    /\ attempts < MaxCalls
    /\ attempts' = attempts + 1
    /\ ops' = Append(ops, "stop")
    /\ mpc' = "stop_capture"
    /\ UNCHANGED << prog, gvars, bvars, dvars, kvars, evars, vvars, device_id, save_audio, stream,
                    is_running, unclosed, ret, call, no_device, cb, lframes, registered,
                    recording, recorded, vis_stopped, cleanup_ran, saving, late_update,
                    late_extend, exc >>

\* the call is over: start_capture has returned True or False, stop_capture
\* has returned or raised, and the client goes on
CallReturns ==
    /\ prog = "caller"
    /\ mpc \in {"set_callback", "failed", "stop_vis", "done"}
    /\ mpc' = "idle"
    /\ exc' = FALSE
    /\ UNCHANGED << prog, xvars, evars, vvars, attempts, device_id, save_audio, stream,
                    is_running, unclosed, ret, call, no_device, cb, lframes,
                    registered, recording, recorded, vis_stopped, cleanup_ran,
                    saving, late_update, late_extend >>

LifeNext ==
    \/ \E d \in Devices : CallStartCapture(d)
    \/ CallStopCapture
    \/ CallReturns
    \/ \E d \in Devices, sa \in BOOLEAN : StartAnalysis(d, sa)
    \/ \E found \in Devices, outcome \in StartOutcomes : StartCapture(found, outcome)
    \/ ReturnFailed
    \/ RegisterCallback
    \/ \E how \in {"closed", "interrupt", "error"} : EndVisualization(how)
    \/ \E outcome \in {"ok", "stop_raises", "close_raises"} : StopCapture(outcome)
    \/ StopVisualization
    \/ SaveBegin
    \/ \E ok \in BOOLEAN : SaveEnd(ok)
    \/ CaptureCallbackBegin
    \/ CaptureCallbackEnd

(***************************************************************************)
(* The band computation of the callbacks on magnitude spectra with at most *)
(* one bin that is not zero.                                               *)
(***************************************************************************)
BandsInit ==
    /\ spectrum = << >>
    /\ bands = << >>

\* n bins, bin j (if any) at 3
Impulse(n, j) == [k \in 1..n |-> IF k = j THEN 3 ELSE 0]

Magnitudes == {Impulse(n, j) : n \in 1..MaxBins, j \in 0..MaxBins}

\* bands = np.zeros(8); for i in range(8): bands[i] = np.mean(...)
ComputeBands ==
    /\ prog = "bands"
    /\ bands = << >>
    /\ bands' = FrequencyBands(spectrum)
    /\ UNCHANGED << prog, gvars, evars, vvars, lvars, dvars, cvars, kvars, spectrum >>

BandsNext == ComputeBands

(***************************************************************************)
(* The downmix at the head of every callback:                              *)
(* np.mean(indata, axis=1) if indata.shape[1] > 1 else indata[:, 0]        *)
(***************************************************************************)
NoBlock == [channels |-> 1, rows |-> << >>]

DownmixInit ==
    /\ ops = << >>
    /\ indata = NoBlock
    /\ mixed = [set |-> FALSE, mono |-> << >>, energy |-> 0, buffer |-> << >>]

\* sample values, in tenths of full scale; their sums over two or three
\* channels divide without remainder
Samples == {-6, 0, 6}

Blocks ==
    UNION {[channels : {c}, rows : [1..n -> [1..c -> Samples]]] :
               c \in 1..MaxChannels, n \in 0..MaxBlock}

\* np.mean over the channels of one row
Mean(row) == SumSeq(row) \div Len(row)

\* a downmix that takes the first channel whatever the channel count
DownmixFirstChannel(block) ==
    [i \in 1..Len(block.rows) |-> block.rows[i][1]]

Downmix(block) ==
    IF block.channels > 1
    THEN [i \in 1..Len(block.rows) |-> Mean(block.rows[i])]
    ELSE [i \in 1..Len(block.rows) |-> block.rows[i][1]]

\* the callback: the downmix, then the energy of the mono frame and the
\* extend of the rolling buffer with it
DownmixCallback ==
    /\ prog = "downmix"
    /\ ~mixed.set
    /\ mixed' = [set    |-> TRUE,
                 mono   |-> Downmix(indata),
                 energy |-> Energy(Downmix(indata)),
                 buffer |-> DequeExtend(<< >>, Downmix(indata), window_samples)]
    /\ UNCHANGED << prog, gvars, evars, vvars, lvars, bvars, cvars, kvars, indata >>

DownmixNext == DownmixCallback

(***************************************************************************)
(* AudioVisualizer: _setup_plots, _on_key_press, update_data, _animate     *)
(***************************************************************************)
NothingDrawn == [artist |-> "none", created |-> 0, clears |-> 0, len |-> 0]

\* __init__: mode 'waveform', no artists, then _setup_plots()
VisualizerInit ==
    /\ view_mode = "waveform"
    /\ clears = 1
    /\ line_wave = 1
    /\ line_fft = 0
    /\ spectrogram_im = 0
    /\ spectrogram_data = 0
    /\ keys = 0
    /\ updates = 0
    /\ last_input = << >>
    /\ animations = 0
    /\ drawn = NothingDrawn

Keys == {"w", "f", "s", "x"}

\* the mode a key selects, "" for a key without a binding
ModeOfKey(k) ==
    CASE k = "w" -> "waveform"
      [] k = "f" -> "fft"
      [] k = "s" -> "spectrogram"
      [] OTHER -> ""

\* _on_key_press: a bound key sets the mode and calls _setup_plots, which
\* clears the axes and creates the line of the mode, or empties
\* spectrogram_data; it never touches spectrogram_im
OnKeyPress(k) ==
    /\ prog = "visualizer"
    /\ keys < MaxKeys
    /\ keys' = keys + 1
    /\ IF ModeOfKey(k) = ""
       THEN UNCHANGED << view_mode, clears, line_wave, line_fft, spectrogram_data >>
       ELSE /\ view_mode' = ModeOfKey(k)
            /\ clears' = clears + 1
            /\ line_wave' = IF k = "w" THEN clears' ELSE line_wave
            /\ line_fft' = IF k = "f" THEN clears' ELSE line_fft
            /\ spectrogram_data' = IF k = "s" THEN 0 ELSE spectrogram_data
    /\ UNCHANGED << prog, gvars, bvars, dvars, cvars, evars, vvars, lvars,
                    spectrogram_im, updates, last_input, animations, drawn >>

\* the arrays given to update_data: of every length, samples 1, 2, ... or
\* 2, 3, ...
Inputs == {Stream(lo, n) : lo \in {0, 1}, n \in 0..MaxInput}

\* update_data(audio), the whole call under data_lock
UpdateData(audio) ==
    /\ prog = "visualizer"
    /\ updates < MaxUpdates
    /\ updates' = updates + 1
    /\ last_input' = audio
    /\ vis_audio_data' = update_data(audio)
    /\ UNCHANGED << prog, gvars, bvars, dvars, cvars, vvars, lvars, view_mode, clears,
                    line_wave, line_fft, spectrogram_im, spectrogram_data, keys,
                    animations, drawn, audio_buffer, engine_lock, data_lock,
                    data_callback, epc, audio_chunk, ext_i, current_data, rpc,
                    r_result, r_from, apc, a_data, a_from, nsamples, ncallbacks,
                    totals, appended, published >>

\* frames of the rolling spectrogram that are kept
spectrogram_keep == 100

\* _animate: the copy under data_lock, then the update of the mode's artist
Animate ==
    /\ prog = "visualizer"
    /\ animations < MaxAnimate
    /\ animations' = animations + 1
    /\ CASE view_mode = "waveform" ->
                /\ drawn' = [artist |-> "line_wave", created |-> line_wave,
                             clears |-> clears, len |-> Len(vis_audio_data)]
                /\ UNCHANGED << spectrogram_im, spectrogram_data >>
         [] view_mode = "fft" ->
                /\ drawn' = [artist |-> "line_fft", created |-> line_fft,
                             clears |-> clears, len |-> Len(vis_audio_data)]
                /\ UNCHANGED << spectrogram_im, spectrogram_data >>
         [] view_mode = "spectrogram" ->
                IF Len(vis_audio_data) > 0
                THEN /\ spectrogram_data' =
                            IF spectrogram_data + 1 > spectrogram_keep
                            THEN spectrogram_keep ELSE spectrogram_data + 1
                     /\ IF spectrogram_data' > 1
                        THEN /\ spectrogram_im' =
                                    IF spectrogram_im = 0 THEN clears ELSE spectrogram_im
                             /\ drawn' = [artist |-> "spectrogram_im",
                                          created |-> spectrogram_im',
                                          clears |-> clears,
                                          len |-> Len(vis_audio_data)]
                        ELSE /\ UNCHANGED spectrogram_im
                             /\ drawn' = [NothingDrawn EXCEPT
                                              !.len = Len(vis_audio_data)]
                ELSE /\ drawn' = NothingDrawn
                     /\ UNCHANGED << spectrogram_im, spectrogram_data >>
    /\ UNCHANGED << prog, gvars, bvars, dvars, cvars, evars, vvars, lvars, view_mode,
                    clears, line_wave, line_fft, keys, updates, last_input >>

VisualizerNext ==
    \/ \E k \in Keys : OnKeyPress(k)
    \/ \E audio \in Inputs : UpdateData(audio)
    \/ Animate

\* a threaded behaviour of one of the programs
Init ==
    /\ prog \in {"engine", "analyzer", "caller"} \cup VisProgs
    /\ EngineInit
    /\ VisInit
    /\ LifeInit
    /\ RandomInit
    /\ BandsInit
    /\ DownmixInit
    /\ VisualizerInit
    /\ mode = "threads"

Next == EngineNext \/ VisNext \/ LifeNext

Spec == Init /\ [][Next]_vars

\* the capture path alone: the audio thread, a reader and the GUI thread
InitCapture ==
    /\ prog = "engine"
    /\ EngineInit
    /\ VisInit
    /\ LifeInit
    /\ RandomInit
    /\ BandsInit
    /\ DownmixInit
    /\ VisualizerInit
    /\ mode = "capture"

\* every thread that can take a step takes one in the end, and a thread
\* that waits for a lock gets it when the lock is free again and again
CaptureFairness ==
    /\ WF_vars(CallbackExtend)
    /\ WF_vars(CallbackRelease)
    /\ WF_vars(DataCallbackCopy)
    /\ WF_vars(UpdateDataStore)
    /\ WF_vars(ReaderCopy)
    /\ WF_vars(AnimateCopy)
    /\ SF_vars(CallbackAcquire)
    /\ SF_vars(DataCallbackAcquire)
    /\ SF_vars(UpdateDataAcquire)

SpecCapture == InitCapture /\ [][EngineNext]_vars /\ CaptureFairness

\* a stream fed to one of the visualizer classes
InitFeed ==
    /\ prog \in VisProgs
    /\ EngineInit
    /\ VisInit
    /\ LifeInit
    /\ RandomInit
    /\ BandsInit
    /\ DownmixInit
    /\ VisualizerInit
    /\ mode = "feed"

SpecFeed == InitFeed /\ [][FeedNext]_vars

\* a long stream, mostly silent, fed to one of the visualizer classes
InitLong ==
    /\ prog \in VisProgs
    /\ EngineInit
    /\ VisInit
    /\ LifeInit
    /\ RandomInit
    /\ BandsInit
    /\ DownmixInit
    /\ VisualizerInit
    /\ mode = "long"

SpecLong == InitLong /\ [][LongNext]_vars

\* a stream with empty frames and frames of nan, fed to one of the classes
InitMalformed ==
    /\ prog \in VisProgs
    /\ EngineInit
    /\ VisInit
    /\ LifeInit
    /\ RandomInit
    /\ BandsInit
    /\ DownmixInit
    /\ VisualizerInit
    /\ mode = "malformed"

SpecMalformed == InitMalformed /\ [][MalformedNext]_vars

\* the band computation on one magnitude spectrum
InitBands ==
    /\ prog = "bands"
    /\ EngineInit
    /\ VisInit
    /\ LifeInit
    /\ RandomInit
    /\ mode = "threads"
    /\ spectrum \in Magnitudes
    /\ bands = << >>
    /\ DownmixInit
    /\ VisualizerInit

SpecBands == InitBands /\ [][BandsNext]_vars

\* one callback on one block
InitDownmix ==
    /\ prog = "downmix"
    /\ EngineInit
    /\ VisInit
    /\ LifeInit
    /\ RandomInit
    /\ BandsInit
    /\ mode = "threads"
    /\ indata \in Blocks
    /\ ops = << >>
    /\ VisualizerInit
    /\ mixed = [set |-> FALSE, mono |-> << >>, energy |-> 0, buffer |-> << >>]

SpecDownmix == InitDownmix /\ [][DownmixNext]_vars

\* one AudioVisualizer, its methods called in any order
InitVisualizer ==
    /\ prog = "visualizer"
    /\ EngineInit
    /\ VisInit
    /\ LifeInit
    /\ RandomInit
    /\ BandsInit
    /\ DownmixInit
    /\ VisualizerInit
    /\ mode = "threads"

SpecVisualizer == InitVisualizer /\ [][VisualizerNext]_vars

(***************************************************************************)
(* Properties                                                              *)
(***************************************************************************)
LockedProgs == {"optimized", "ascii", "combined", "fixed"}

Copied == {f \in Fields : snap[f].set}

DirectlyRead == {f \in Fields : seen[f].set}

\* C1: in OptimizedAudioBrain, ASCIIMusicVisualizer, CombinedMusicVisualizer and
\* ElonMuskFixedVisual the attributes a render pass copies inside its
\* with-block all carry the stamp of one and the same callback (or all are
\* the constructor's values), whatever the interleaving with audio_callback.
LockedCopyFromOneCallback ==
    prog \in LockedProgs =>
        \A f \in Copied : \A g \in Copied : snap[f].frame = snap[g].frame

\* a pass has copied all of frame 1 while the callback of frame 2 waits for
\* the lock
LockedCopyWhileCallbackWaits ==
    /\ prog = "ascii"
    /\ cpc = "copy"
    /\ ridx > Len(LockedReads(prog))
    /\ \A f \in {"audio_data", "energy", "beat", "frequency_bands"} :
           snap[f].set /\ snap[f].frame = 1
    /\ ppc = "lock"
    /\ frames = 2

\* C2: every value one render pass uses, copied under the lock or read from
\* the object directly, comes from one and the same callback.
PassUsesOneCallback == Cardinality(pass_frames) <= 1

\* C3: the audio thread is never waiting for a lock that a consumer thread
\* holds.
ProducerWaitsForConsumer ==
    \/ prog = "engine" /\ epc \in {"lock", "get_lock"} /\ engine_lock = "reader"
    \/ prog = "engine" /\ epc = "update_lock" /\ data_lock = "animator"
    \/ prog \in VisProgs /\ ppc = "lock" /\ lock = "consumer"

ProducerNeverWaitsForConsumer == ~ProducerWaitsForConsumer

Window(n) == LastN(Stream(0, n), window_samples)

\* C5: once a sample has been appended, what get_audio_data returns is the
\* window of the stream as some completed extend left it: the last
\* min(C, n) samples in order, never part of a frame.
ReadSeesWholeAppends ==
    /\ (rpc = "idle" /\ Len(r_result) = 1 /\ r_from > 0) =>
           \E n \in totals : n > 0 /\ r_result[1] = Window(n)
    /\ (prog = "engine" /\ epc \in {"update_lock", "update_store"}) =>
           \E n \in totals : n > 0 /\ current_data = Window(n)

\* a reader got the window while a later callback was waiting for the lock,
\* after the oldest samples had been evicted
ReadDuringCallbackAfterEviction ==
    /\ prog = "engine"
    /\ rpc = "idle"
    /\ Len(r_result) = 1
    /\ r_from > window_samples
    /\ r_result[1] = Window(r_from)
    /\ r_result[1][1] > 1
    /\ epc = "lock"

\* C6: before the first callback every read yields the defaults: energy 0,
\* beat false, eight zero bands, an all-zero waveform.
DefaultsBeforeFirstFrame ==
    /\ (prog = "engine" /\ nsamples = 0) =>
           /\ \A i \in 1..Len(r_result) : r_result[i] = Zeros(window_samples)
           /\ \A i \in 1..Len(a_data) : a_data[i] = Zeros(window_size)
    /\ (prog \in VisProgs /\ frames = 0) =>
           /\ \A f \in Copied \cap {"energy", "last_energy", "neural_activation"} :
                  snap[f].val = 0
           /\ \A f \in DirectlyRead \cap {"energy", "last_energy", "neural_activation"} :
                  seen[f].val = 0
           /\ \A f \in Copied \cap {"beat", "beat_detected"} : snap[f].val = FALSE
           /\ \A f \in DirectlyRead \cap {"beat", "beat_detected"} : seen[f].val = FALSE
           /\ \A f \in Copied \cap {"frequency_bands"} :
                  snap[f].val = << 0, 0, 0, 0, 0, 0, 0, 0 >>
           /\ \A f \in DirectlyRead \cap {"frequency_bands"} :
                  seen[f].val = << 0, 0, 0, 0, 0, 0, 0, 0 >>
           /\ \A f \in Copied \cap {"audio_data", "audio_buffer"} :
                  snap[f].val = Zeros(display_len)

\* a whole pass of ASCIIMusicVisualizer before any callback
PassBeforeFirstFrame ==
    /\ prog = "ascii"
    /\ frames = 0
    /\ cpc = "direct"
    /\ ridx > Len(DirectReads(prog))
    /\ Copied = {"audio_data", "energy", "beat", "frequency_bands"}
    /\ seen["frequency_bands"].set

\* C7: a read that begins after the callback of frame k has returned yields
\* values of frame k or of a later frame; for AudioVisualizer._animate, the
\* data of the stream up to the frame last published by update_data or
\* beyond.
ReadSeesLatestCompleted ==
    /\ prog \in VisProgs =>
           /\ \A f \in Copied : snap[f].frame >= c_from
           /\ \A f \in DirectlyRead : seen[f].frame >= c_from
    /\ (prog = "engine" /\ Len(a_data) = 1 /\ apc = "idle" /\ a_from > 0) =>
           SeqMax(a_data[1]) >= a_from

\* _animate began after two frames had been published and copied their data
AnimateAfterCallbacks ==
    /\ prog = "engine"
    /\ apc = "idle"
    /\ Len(a_data) = 1
    /\ ncallbacks >= 2
    /\ a_from = nsamples
    /\ a_from > window_size
    /\ SeqMax(a_data[1]) = a_from

(***************************************************************************)
(* Beat detection (feed mode)                                              *)
(***************************************************************************)
\* the energy of the last frame fed and the flag its callback published
LastEnergy == cur.energy

PublishedBeat == IF prog = "brain" THEN pub["beat_detected"].val ELSE pub["beat"].val

\* the absolute floor of the two relative-baseline classes: 0.02 and
\* self.energy_threshold = 0.01
AboveFloor == Above(LastEnergy, IF prog = "combined" THEN 2 ELSE 1, BufferSize(prog))

\* C8: in CombinedMusicVisualizer and ElonMuskAudioBrain the flag of a frame is
\* true exactly when its energy is above the floor and above 1.5 times the
\* mean of the entire energy history, the frame's own energy included.
BeatIffAboveWholeHistoryMean ==
    (prog \in {"combined", "brain"} /\ frames >= 1) =>
        (PublishedBeat <=> (AboveFloor /\ ExceedsMean(LastEnergy, energy_history)))

\* C9: a frame above the floor and above 1.5 times the mean of the history as
\* it stood before the frame is flagged.
BeatOnRiseOverPrecedingMean ==
    (/\ prog \in {"combined", "brain"}
     /\ Len(prev_history) >= 1
     /\ AboveFloor
     /\ ExceedsMean(LastEnergy, prev_history)) => PublishedBeat

\* the most recent energies, the last frame's included
Recent == LastN(fed, history_maxlen)

AllEqual(s) == \A i \in 1..Len(s) : s[i] = s[1]

\* C10: in every class a frame is flagged only if its energy exceeds 1.5 times
\* the mean of the recent energies; a stream of frames of one and the same
\* energy has no flagged frame.
BeatOnlyOnRise ==
    (frames >= 1 /\ PublishedBeat) =>
        /\ ExceedsMean(LastEnergy, Recent)
        /\ ~(Len(fed) >= 2 /\ AllEqual(fed))


(***************************************************************************)
(* Silence and the energy history (long behaviours)                        *)
(***************************************************************************)
PublishedEnergy == IF prog = "brain" THEN pub["last_energy"].val ELSE pub["energy"].val

\* C11: while every frame fed so far was a frame of zeros, the callback has
\* published energy 0 and beat false, in every class and after every frame.
SilenceIsNeverABeat ==
    (frames >= 1 /\ loud = 0) => (PublishedEnergy = 0 /\ ~PublishedBeat)

\* fifty silent frames have been fed to CombinedMusicVisualizer
FiftySilentFrames ==
    /\ prog = "combined"
    /\ frames = history_maxlen
    /\ loud = 0
    /\ pub["energy"].frame = history_maxlen

\* the absolute floor of each class: 0.01 or 0.02
FloorOf(p) == IF p \in {"optimized", "simple", "brain"} THEN 1 ELSE 2

\* the frame just fed is the first that is not silent, after at least one
\* silent frame
FirstLoudAfterSilence == frames >= 2 /\ loud = 1 /\ ~IsSilent(cur.mono)

\* C12: a frame above the floor that follows k >= 1 silent frames and nothing
\* else is flagged on that very frame.
BeatAfterSilence ==
    (FirstLoudAfterSilence /\ Above(LastEnergy, FloorOf(prog), Len(cur.mono)))
        => (PublishedBeat /\ pub[IF prog = "brain" THEN "beat_detected" ELSE "beat"].frame = frames)

\* 49 silent frames, then one full-scale frame
LoudAfterFortyNineSilent ==
    /\ prog \in {"combined", "brain"}
    /\ frames = history_maxlen
    /\ FirstLoudAfterSilence
    /\ LastEnergy = 100 * buffer_large
    /\ PublishedBeat

\* C13: after every callback the energy history holds the energies of the
\* most recent min(n, 50) frames in arrival order, and never more than 50.
HistoryIsLastFifty ==
    prog \in {"combined", "brain"} =>
        /\ Len(energy_history) <= history_maxlen
        /\ energy_history = LastN(fed, history_maxlen)
        /\ frames >= 1 => cur.history = energy_history

\* more than 50 frames were fed and the one non-silent frame has been evicted
LoudFrameEvicted ==
    /\ prog \in {"combined", "brain"}
    /\ frames > history_maxlen
    /\ Len(energy_history) = history_maxlen
    /\ fed[1] > 0
    /\ \A i \in 1..Len(energy_history) : energy_history[i] = 0

(***************************************************************************)
(* Malformed frames                                                        *)
(***************************************************************************)
Finite(s) == ~HasNaN(s)

\* C14: after a frame with a nan sample the published energy is 0, beat is
\* false, the bands are finite and no nan has entered the rolling buffer.
NaNFrameIsSilence ==
    (frames >= 1 /\ HasNaN(cur.mono)) =>
        /\ PublishedEnergy = 0
        /\ ~PublishedBeat
        /\ Finite(pub["frequency_bands"].val)
        /\ Finite(pub["audio_buffer"].val)
        /\ Finite(pub["audio_data"].val)

\* C15: no callback ends with an exception, whatever the frame.
CallbackNeverRaises == ~cur.raises

\* C16: for an empty frame the callback does not raise and publishes energy 0
\* and beat false, stamped with that frame as for a frame of zeros.
EmptyFrameIsSilence ==
    (frames >= 1 /\ Len(cur.mono) = 0) =>
        /\ ~cur.raises
        /\ PublishedEnergy = 0
        /\ ~PublishedBeat
        /\ pub[IF prog = "brain" THEN "last_energy" ELSE "energy"].frame = frames

(***************************************************************************)
(* The capture stream and shutdown                                         *)
(***************************************************************************)
\* start_analysis has returned or raised
Ended == mpc = "done" \/ (mpc = "idle" /\ attempts > 0)

\* C17: when start_analysis has ended, every input stream that start_capture
\* created has been closed.
StreamClosedOnEveryExit == (prog = "analyzer" /\ Ended) => unclosed = 0

\* C18: cleanup stops the capture before it releases the visualizer and
\* releases the visualizer before it writes the recording; no callback calls
\* update_data or extends recorded_data after the visualizer was stopped or
\* while the recording is written; every exit from start_visualization has
\* entered cleanup.
ShutdownIsOrdered ==
    prog = "analyzer" =>
        /\ ~late_update
        /\ ~late_extend
        /\ vis_stopped => (stream = "none" /\ ~is_running /\ cb = "idle")
        /\ saving # "no" => vis_stopped
        /\ mpc \in {"stop_vis", "save", "saving"} => ~is_running
        /\ (mpc = "done" \/ vis_stopped) => cleanup_ran

\* a recording of two chunks has been written after an interrupted
\* visualization
RecordingSavedAfterShutdown ==
    /\ prog = "analyzer"
    /\ mpc = "done"
    /\ saving = "done"
    /\ recorded = 2
    /\ vis_stopped
    /\ ~exc

\* C19: a start_capture call that finds no device (no device_id given and none
\* found) returns False and changes neither is_running nor the stream nor the
\* buffer.
NoDeviceLeavesEngineUnchanged ==
    [][(/\ prog = "analyzer"
        /\ mpc = "start_capture"
        /\ mpc' # mpc
        /\ ~is_running
        /\ call'.device_id = "none"
        /\ call'.found = "none")
       => (/\ ret' = "false"
           /\ ~is_running'
           /\ UNCHANGED << stream, unclosed, audio_buffer, is_running >>)]_vars

\* a first call found no device, the retry started the capture
RetryAfterNoDevice ==
    /\ prog = "analyzer"
    /\ no_device
    /\ attempts = 2
    /\ is_running
    /\ stream = "active"
    /\ ret = "true"

(***************************************************************************)
(* Shared attributes and the lock                                          *)
(***************************************************************************)
\* the callback is about to write an attribute the render thread reads
ProducerAtSharedWrite ==
    \/ ppc = "write" /\ widx <= Len(WriteOrder(prog))
    \/ ppc = "process" /\ widx <= Len(UnlockedWrites(prog))

\* the render pass is about to read an attribute the callback writes
ConsumerAtSharedRead ==
    \/ cpc = "copy" /\ ridx <= Len(LockedReads(prog))
    \/ cpc = "direct" /\ ridx <= Len(DirectReads(prog))

\* C20: a thread that is about to read or write an attribute shared between
\* the callback and the render pass holds the object's lock.
SharedAccessUnderLock ==
    prog \in VisProgs =>
        /\ ProducerAtSharedWrite => lock = "producer"
        /\ ConsumerAtSharedRead => lock = "consumer"

(***************************************************************************)
(* C21: only the audio callback writes the feature state                   *)
(***************************************************************************)
\* a step of a consumer: get_audio_data called by a reader, _animate, or a
\* render pass (update_frame / render_frame / draw_ascii_art with the pattern
\* and image selection)
ConsumerStep == rpc' # rpc \/ apc' # apc \/ cpc' # cpc \/ ridx' # ridx

FeatureState == << pub, energy_history, audio_buffer, vis_audio_data >>

\* C21: no step of a consumer changes the energy, the beat flag, the
\* frequency bands, the energy history or the rolling audio buffer; the audio
\* callback is their only writer.
ConsumersLeaveFeaturesAlone == [][ConsumerStep => UNCHANGED FeatureState]_vars

\* a render pass has copied the features of a loud frame, or a reader and
\* _animate have both returned data of the stream
PassOverPublishedFrame ==
    \/ /\ prog \in VisProgs
       /\ cpc = "direct"
       /\ c_from >= 1
       /\ PublishedEnergy > 0
    \/ /\ prog = "engine"
       /\ rpc = "idle" /\ apc = "idle"
       /\ Len(r_result) = 1 /\ Len(a_data) = 1
       /\ r_from > 0 /\ a_from > 0

(***************************************************************************)
(* C22: the published features are a function of the frames                *)
(***************************************************************************)
\* the features: energy, beat and bands
Features == {"energy", "beat", "frequency_bands", "last_energy", "beat_detected"}

\* C22: whenever a callback has returned, the published energy, beat and
\* bands are those the same frames yield when one whole callback runs after
\* the other, whatever random drew and whenever the render pass read.
FeaturesDependOnFramesOnly ==
    (prog \in VisProgs /\ mode = "threads" /\ ppc = "idle")
        => /\ \A f \in Features \cap Written(prog) : pub[f].val = ref.vals[f]
           /\ energy_history = ref.history

\* two frames have been published, random has drawn a one since, and a
\* render pass is reading
TwoFramesRandomAndPass ==
    /\ prog \in VisProgs /\ mode = "threads"
    /\ ppc = "idle" /\ done = 2
    /\ rnd = 1
    /\ cpc \in {"copy", "direct"}
    /\ PublishedEnergy > 0

(***************************************************************************)
(* C23: the bands partition the bins                                       *)
(***************************************************************************)
\* the band of bin j when the bins are cut into band_count contiguous bands
\* of size floor(bins / band_count) and the last band takes the remainder
BandOfBin(j, bins) ==
    LET band_size == bins \div band_count
        b == ((j - 1) \div band_size) + 1
    IN  IF b > band_count THEN band_count ELSE b

\* C23: every bin contributes to exactly one band: with one bin that is not
\* zero, its band and no other is not zero, the last band taking the bins
\* after 8 * floor(bins / 8).
BinsPartitionedIntoBands ==
    (prog = "bands" /\ bands # << >> /\ Len(spectrum) >= band_count)
        => \A j \in 1..Len(spectrum) :
              spectrum[j] # 0
                  => {i \in 1..band_count : bands[i] # 0}
                         = {BandOfBin(j, Len(spectrum))}

(***************************************************************************)
(* C24: bands without bins                                                 *)
(***************************************************************************)
\* the last frame had fewer than eight bins
LastFrameShort ==
    /\ prog \in {"ascii", "combined", "fixed"}
    /\ frames >= 1
    /\ Len(cur.mono) > 0
    /\ (Len(cur.mono) \div 2) + 1 < band_count

\* C24: after a frame whose transform has fewer than eight bins no published
\* band is nan, and the bands before the last, which receive no bins, are 0.
ShortFrameBandsAreZero ==
    LastFrameShort
        => /\ \A i \in 1..band_count : ~IsNaN(pub["frequency_bands"].val[i])
           /\ \A i \in 1..(band_count - 1) : pub["frequency_bands"].val[i] = 0

(***************************************************************************)
(* C25: the side of the zero padding                                       *)
(***************************************************************************)
\* the last n samples of s behind as many zeros as are missing
LeftPadded(s, n) == Zeros(n - Len(LastN(s, n))) \o LastN(s, n)

\* C25: a fixed-length view of fewer samples than its length holds the
\* zeros first and the samples last, the newest sample at the last index:
\* AudioVisualizer.audio_data after update_data, and audio_data of
\* OptimizedAudioBrain and ASCIIMusicVisualizer after a callback.
ShortInputPaddedOnTheLeft ==
    /\ (prog = "engine" /\ epc = "idle" /\ published > 0)
          => vis_audio_data = LeftPadded(current_data, window_size)
    /\ (prog \in {"optimized", "ascii"} /\ mode = "threads" /\ ppc = "idle" /\ done >= 1)
          => pub["audio_data"].val = LeftPadded(cur.mono, display_len)

(***************************************************************************)
(* C26: the mono frame                                                     *)
(***************************************************************************)
\* the sum over the channels of sample i of the block
RowSum(i) == SumSeq(indata.rows[i])

\* C26: the mono frame of a block of c >= 1 channels and n samples has n
\* samples, sample i is the mean of the c channel values of sample i, and the
\* energy and the rolling buffer are made from this frame alone.
MonoIsChannelMean ==
    (prog = "downmix" /\ mixed.set)
        => /\ Len(mixed.mono) = Len(indata.rows)
           /\ \A i \in 1..Len(indata.rows) :
                  indata.channels * mixed.mono[i] = RowSum(i)
           /\ Len(indata.rows) > 0
                  => indata.channels * indata.channels * mixed.energy
                         = SumSq([i \in 1..Len(indata.rows) |-> RowSum(i)])
           /\ mixed.buffer = LastN(mixed.mono, window_samples)

\* a stereo block of the most samples whose channels differ in every sample
\* has been mixed
StereoBlockMixed ==
    /\ prog = "downmix" /\ mixed.set
    /\ indata.channels = 2
    /\ Len(indata.rows) = MaxBlock
    /\ \A i \in 1..Len(indata.rows) : indata.rows[i][1] # indata.rows[i][2]

(***************************************************************************)
(* C27: the capture path cannot deadlock                                   *)
(***************************************************************************)
\* the audio thread holds both locks
HoldsTwoLocks == engine_lock = "producer" /\ data_lock = "producer"

\* the audio thread waits for a lock while it holds one
WaitsHoldingLock ==
    /\ epc \in {"lock", "get_lock", "update_lock"}
    /\ engine_lock = "producer" \/ data_lock = "producer"

\* a reader or the GUI thread holds a lock that is not its own
ConsumerHoldsOther == engine_lock = "animator" \/ data_lock = "reader"

\* C27: no thread holds two locks at once or waits for a lock while it
\* holds one, and under fair scheduling every started audio callback, every
\* started get_audio_data and every started _animate completes.
CaptureNeverDeadlocks ==
    /\ [](~HoldsTwoLocks /\ ~WaitsHoldingLock /\ ~ConsumerHoldsOther)
    /\ (epc # "idle") ~> (epc = "idle")
    /\ (rpc # "idle") ~> (rpc = "idle")
    /\ (apc # "idle") ~> (apc = "idle")

\* the callback waits for the engine's lock, which a reader holds, while
\* _animate holds the visualizer's lock
CallbackWaitsForBoth ==
    /\ prog = "engine"
    /\ epc = "get_lock"
    /\ engine_lock = "reader"
    /\ data_lock = "animator"

(***************************************************************************)
(* C28: the life cycle of AudioEngine                                      *)
(***************************************************************************)
\* a step in which the start_capture or stop_capture in progress ends
CallEnds(op) == mpc = op /\ mpc' # op

EngineState == << stream, is_running, unclosed >>

AudioDataHasWindowSize ==
    /\ Len(vis_audio_data) = window_size
    /\ (prog = "visualizer" /\ updates > 0 /\ Len(last_input) > window_size)
          => \A i \in 1..window_size :
                vis_audio_data[i] = last_input[Len(last_input) - window_size + i]
    /\ (prog = "visualizer" /\ animations > 0) => drawn.len = window_size
    /\ \A i \in 1..Len(a_data) : Len(a_data[i]) = window_size

\* an empty array and then a shorter one have been given to update_data, and
\* _animate has run since
AnimateAfterShortInputs ==
    /\ prog = "visualizer"
    /\ updates = 2
    /\ Len(last_input) \in 1..(window_size - 1)
    /\ vis_audio_data # Zeros(window_size)
    /\ animations > 0

(***************************************************************************)
(* C30: key presses and the artists _animate updates                       *)
(***************************************************************************)
\* C30: the mode is always one of the three modes, and every artist
\* _animate updates was created after the latest clear of the axes.
ArtistsAreCurrent ==
    /\ view_mode \in {"waveform", "fft", "spectrogram"}
    /\ drawn.artist # "none" => (drawn.created # 0 /\ drawn.created = drawn.clears)
====
